---- MODULE Spec2Model ----
(***************************************************************************)
(* A model of the waiting-line bot of src/src/queue.rs: the in-memory      *)
(* queue of user ids, the backup file that persists it, and the command    *)
(* handlers (add, done, show, help, unrecognized) that determine_response  *)
(* dispatches to.  The backup file is modelled as its sequence of bytes,   *)
(* written by write_state and parsed by from_file.                         *)
(***************************************************************************)
EXTENDS Integers, Sequences, FiniteSets, TLC

(***************************************************************************)
(* Bounds of the model.                                                    *)
(***************************************************************************)
\* longest queue the model lets the handlers build
MaxLen == 5
\* how many distinct Slack users send commands
NumUsers == 2
\* how many saves of the backup file may fail in one behaviour
MaxFailures == 1
\* how many bytes a failing flush may have transferred before its error
MaxPartial == 1
\* how many lines a backup file handed to from_file holds at most
MaxLines == 4
\* longest queue show and peek are applied to with a directory of any shape
MaxShown == 3
\* the largest position in line a UserID of user.rs is given
MaxPosition == 2

UserPool == <<"A", "B", "C", "D">>
Users == {UserPool[i] : i \in 1..NumUsers}

(***************************************************************************)
(* Program constants.                                                      *)
(***************************************************************************)
\* the queue length below which back-to-back entries are allowed (can_add)
ShortLine == 3

(***************************************************************************)
(* Byte-level helpers.                                                     *)
(***************************************************************************)
DigitChars == <<"0", "1", "2", "3", "4", "5", "6", "7", "8", "9">>
Whitespace == {" ", "\t", "\n"}

Min(a, b) == IF a <= b THEN a ELSE b

\* no blanks at all, whatever the length of the file
Blanks_none(n) == <<>>

\* vec![b' '; n]
Blanks(n) == [i \in 1..n |-> " "]

\* "{}" applied to a usize: its decimal digits
RECURSIVE FormatUsize(_)
FormatUsize(n) ==
    IF n < 10 THEN <<DigitChars[n + 1]>>
    ELSE FormatUsize(n \div 10) \o <<DigitChars[(n % 10) + 1]>>

\* "{}" applied to a UserID: the uid token (one byte per uid in this model)
FormatUserID(u) == <<u>>

\* the buffer write_state builds: one line "{pos}\t{uid}\n" per queue entry
RECURSIVE SerializeFrom(_, _)
SerializeFrom(q, i) ==
    IF i > Len(q) THEN <<>>
    ELSE FormatUsize(i - 1) \o <<"\t">> \o FormatUserID(q[i]) \o <<"\n">>
         \o SerializeFrom(q, i + 1)

Serialize(q) == SerializeFrom(q, 1)

\* writing data at offset 0 of a file that is cut off behind the data
WriteAtStart_truncating(f, data) == data

\* writing data at offset 0 of a file that is not truncated
WriteAtStart(f, data) ==
    IF Len(data) >= Len(f) THEN data ELSE data \o SubSeq(f, Len(data) + 1, Len(f))

(***************************************************************************)
(* write_state.  The BufWriter holds the blanks and the new content in     *)
(* memory; the file is touched when the buffer is flushed.  io is the      *)
(* outcome of the call: <<"ok", 0>>, or the step that returned the error:  *)
(*   <<"seek", 0>>  - measuring or rewinding the file fails, before any    *)
(*                    byte reached it;                                     *)
(*   <<"write", n>> - the blanks reached the file and the flush of the new *)
(*                    content fails after n of its bytes, n <= MaxPartial. *)
(***************************************************************************)
IoFailures(q) ==
    {<<"seek", 0>>}
        \cup {<<"write", n>> : n \in 0..Min(MaxPartial, Len(Serialize(q)) - 1)}

\* the outcomes open to a command that writes queue q (writes =
\* FALSE: the command returns before write_state, and no outcome is drawn);
\* a failure is drawn only while fewer than MaxFailures saves have failed
IoOutcomes(q, writes, failed) ==
    IF writes /\ failed < MaxFailures THEN {<<"ok", 0>>} \cup IoFailures(q)
    ELSE {<<"ok", 0>>}

\* write_state without the blanks: the new content written over the old
write_state_no_padding(q, f, io) ==
    LET output == Serialize(q)
    IN  CASE io[1] = "ok"    -> [ok |-> TRUE, file |-> WriteAtStart(f, output)]
          [] io[1] = "seek"  -> [ok |-> FALSE, file |-> f]
          [] io[1] = "write" ->
               [ok |-> FALSE, file |-> WriteAtStart(f, SubSeq(output, 1, io[2]))]

\* write_state saving the last entry only, at the place of its line, the
\* lines before it taken to be in the file already
write_state_last_line(q, f, io) ==
    LET output == Serialize(q)
        kept == Len(Serialize(SubSeq(q, 1, Len(q) - 1)))
        head == SubSeq(f, 1, Min(kept, Len(f))) \o Blanks(kept - Min(kept, Len(f)))
    IN  CASE io[1] = "ok"    ->
               [ok |-> TRUE,
                file |-> WriteAtStart(f, head \o SubSeq(output, kept + 1, Len(output)))]
          [] io[1] = "seek"  -> [ok |-> FALSE, file |-> f]
          [] io[1] = "write" ->
               [ok |-> FALSE, file |-> WriteAtStart(f, Blanks(Len(f)))]

write_state(q, f, io) ==
    LET output == Serialize(q)
        num_bytes == Len(f)
        padded == WriteAtStart(f, Blanks(num_bytes))
    IN  CASE io[1] = "ok"    -> [ok |-> TRUE, file |-> WriteAtStart(padded, output)]
          [] io[1] = "seek"  -> [ok |-> FALSE, file |-> f]
          [] io[1] = "write" ->
               [ok |-> FALSE, file |-> WriteAtStart(padded, SubSeq(output, 1, io[2]))]

(***************************************************************************)
(* The queue operations.                                                   *)
(***************************************************************************)
\* VecDeque::back
Back(q) == IF Len(q) = 0 THEN "none" ELSE q[Len(q)]

\* can_add with the length test off by one
can_add_off_by_one(q, user) == Len(q) <= ShortLine \/ Back(q) # user

\* can_add with a short line of two instead of three
can_add_short_two(q, user) == Len(q) < ShortLine - 1 \/ Back(q) # user

\* can_add testing membership in the whole queue instead of the tail
can_add_membership(q, user) == Len(q) < ShortLine \/ \A i \in 1..Len(q) : q[i] # user

\* can_add without the tail test
can_add_no_rule(q, user) == TRUE

\* can_add comparing with the head of the line instead of the tail
can_add_front(q, user) == Len(q) < ShortLine \/ q[1] # user

\* can_add looking at the last two entries of a long line
can_add_last_two(q, user) ==
    Len(q) < ShortLine \/ (Back(q) # user /\ q[Len(q) - 1] # user)

\* can_add comparing with the entry in front of the tail
can_add_second_last(q, user) == Len(q) < ShortLine \/ q[Len(q) - 1] # user

can_add(q, user) == Len(q) < ShortLine \/ Back(q) # user

\* add_user_no_write pushing at the front
add_user_no_write_front(q, user) ==
    IF can_add(q, user)
    THEN [queue |-> <<user>> \o q, added |-> TRUE]
    ELSE [queue |-> q, added |-> FALSE]

\* add_user_no_write putting the user in the place of the tail entry
add_user_no_write_replace_tail(q, user) ==
    IF can_add(q, user)
    THEN [queue |-> IF q = <<>> THEN <<user>> ELSE [q EXCEPT ![Len(q)] = user],
          added |-> TRUE]
    ELSE [queue |-> q, added |-> FALSE]

add_user_no_write(q, user) ==
    IF can_add(q, user)
    THEN [queue |-> Append(q, user), added |-> TRUE]
    ELSE [queue |-> q, added |-> FALSE]

\* add_user calling write_state whether or not the user was added
add_user_always_writes(q, f, user, io) ==
    LET r == add_user_no_write(q, user)
        w == write_state(r.queue, f, io)
    IN  [queue |-> r.queue, file |-> w.file, user |-> user, wrote |-> TRUE,
         result |-> IF ~r.added THEN "UserNotAdded"
                    ELSE IF w.ok THEN "UserSuccessfullyAdded"
                    ELSE "UserUnsuccessfullyAdded"]

\* add_user undoing the push when write_state fails
add_user_rollback(q, f, user, io) ==
    LET r == add_user_no_write(q, user)
    IN  IF r.added
        THEN LET w == write_state(r.queue, f, io)
             IN  [queue |-> IF w.ok THEN r.queue ELSE q, file |-> w.file, user |-> user,
                  wrote |-> TRUE,
                  result |-> IF w.ok THEN "UserSuccessfullyAdded"
                                     ELSE "UserUnsuccessfullyAdded"]
        ELSE [queue |-> r.queue, file |-> f, user |-> user, wrote |-> FALSE,
              result |-> "UserNotAdded"]

add_user(q, f, user, io) ==
    LET r == add_user_no_write(q, user)
    IN  IF r.added
        THEN LET w == write_state(r.queue, f, io)
             IN  [queue |-> r.queue, file |-> w.file, user |-> user, wrote |-> TRUE,
                  result |-> IF w.ok THEN "UserSuccessfullyAdded"
                                     ELSE "UserUnsuccessfullyAdded"]
        ELSE [queue |-> r.queue, file |-> f, user |-> user, wrote |-> FALSE,
              result |-> "UserNotAdded"]

\* Position finding the match closest to the tail (rposition)
Position_last(q, user) ==
    IF \E i \in 1..Len(q) : q[i] = user
    THEN CHOOSE i \in 1..Len(q) : q[i] = user /\ \A j \in (i + 1)..Len(q) : q[j] # user
    ELSE 0

\* Iterator::position(|u| *u == user): 1-based here, 0 when there is no match
Position(q, user) ==
    IF \E i \in 1..Len(q) : q[i] = user
    THEN CHOOSE i \in 1..Len(q) : q[i] = user /\ \A j \in 1..(i - 1) : q[j] # user
    ELSE 0

\* VecDeque::remove(idx), idx 1-based
\* VecDeque::remove taking out the head whatever the index is (pop_front)
RemoveAt_head(q, i) == Tail(q)

\* VecDeque::remove bringing the entries behind the index to the front
RemoveAt_rotate(q, i) == SubSeq(q, i + 1, Len(q)) \o SubSeq(q, 1, i - 1)

RemoveAt(q, i) == SubSeq(q, 1, i - 1) \o SubSeq(q, i + 1, Len(q))

\* remove_user calling write_state also when the user is not in the queue
remove_user_always_writes(q, f, user, io) ==
    LET p == Position(q, user)
        nq == RemoveAt(q, p)
        w == write_state(nq, f, io)
    IN  [queue |-> nq, file |-> w.file, user |-> IF p # 0 THEN q[p] ELSE user,
         wrote |-> TRUE,
         result |-> IF p = 0 THEN "NonExistentUser"
                    ELSE IF w.ok THEN "UserSuccessfullyRemoved"
                    ELSE "UserUnsuccessfullyRemoved",
         idx |-> IF p # 0 /\ w.ok THEN p - 1 ELSE -1]

\* remove_user taking the entry at the head (pop_front) once the user is found
remove_user_pop_front(q, f, user, io) ==
    LET p == Position(q, user)
    IN  IF p # 0
        THEN LET nq == Tail(q)
                 w == write_state(nq, f, io)
             IN  [queue |-> nq, file |-> w.file, user |-> q[1], wrote |-> TRUE,
                  result |-> IF w.ok THEN "UserSuccessfullyRemoved"
                                     ELSE "UserUnsuccessfullyRemoved",
                  idx |-> IF w.ok THEN 0 ELSE -1]
        ELSE [queue |-> q, file |-> f, user |-> user, wrote |-> FALSE,
              result |-> "NonExistentUser", idx |-> -1]

\* idx is the 0-based index of UserSuccessfullyRemoved(idx); -1 when the
\* result carries no index
remove_user(q, f, user, io) ==
    LET p == Position(q, user)
    IN  IF p # 0
        THEN LET nq == RemoveAt(q, p)
                 w == write_state(nq, f, io)
             IN  [queue |-> nq, file |-> w.file, user |-> q[p], wrote |-> TRUE,
                  result |-> IF w.ok THEN "UserSuccessfullyRemoved"
                                     ELSE "UserUnsuccessfullyRemoved",
                  idx |-> IF w.ok THEN p - 1 ELSE -1]
        ELSE [queue |-> q, file |-> f, user |-> user, wrote |-> FALSE,
              result |-> "NonExistentUser", idx |-> -1]

\* peek_first_user_in_line looking at the other end (VecDeque::back)
peek_last_user_in_line(q) == IF Len(q) = 0 THEN "none" ELSE q[Len(q)]

peek_first_user_in_line(q) == IF Len(q) = 0 THEN "none" ELSE q[1]

(***************************************************************************)
(* from_file: parsing the backup file and replaying it.                    *)
(***************************************************************************)
\* str::lines: split at "\n"; a final line needs no terminator
RECURSIVE LinesFrom(_, _, _)
LinesFrom(f, i, cur) ==
    IF i > Len(f) THEN (IF cur = <<>> THEN <<>> ELSE <<cur>>)
    ELSE IF f[i] = "\n" THEN <<cur>> \o LinesFrom(f, i + 1, <<>>)
    ELSE LinesFrom(f, i + 1, Append(cur, f[i]))

Lines(f) == LinesFrom(f, 1, <<>>)

\* the filter letting every line through, blank ones too
HasContent_always(line) == TRUE

\* !s.trim().is_empty()
HasContent(line) == \E i \in 1..Len(line) : line[i] \notin Whitespace

\* str::split_whitespace: the maximal runs of non-whitespace bytes
RECURSIVE TokensFrom(_, _, _)
TokensFrom(line, i, cur) ==
    IF i > Len(line) THEN (IF cur = <<>> THEN <<>> ELSE <<cur>>)
    ELSE IF line[i] \in Whitespace
         THEN (IF cur = <<>> THEN <<>> ELSE <<cur>>) \o TokensFrom(line, i + 1, <<>>)
    ELSE TokensFrom(line, i + 1, Append(cur, line[i]))

split_whitespace(line) == TokensFrom(line, 1, <<>>)

DigitValue(c) == (CHOOSE d \in 1..10 : DigitChars[d] = c) - 1

IsDigit(c) == \E d \in 1..10 : DigitChars[d] = c

\* str::parse::<usize>: an optional "+" and at least one decimal digit; -1
\* stands for the Err result (values beyond usize::MAX are out of the bounds)
RECURSIVE ParseDigits(_, _, _)
ParseDigits(tok, i, acc) ==
    IF i > Len(tok) THEN acc
    ELSE ParseDigits(tok, i + 1, 10 * acc + DigitValue(tok[i]))

parse_usize(tok) ==
    LET digits == IF Len(tok) > 0 /\ tok[1] = "+" THEN Tail(tok) ELSE tok
    IN  IF Len(digits) > 0 /\ \A i \in 1..Len(digits) : IsDigit(digits[i])
        THEN ParseDigits(digits, 1, 0)
        ELSE -1

\* UserID::new on a token read from the file (uids are one byte in this model)
UserIDNew(tok) == IF Len(tok) = 1 THEN tok[1] ELSE tok

\* the loop filling `people` with BTreeMap::insert's old value ignored: the
\* later of two lines with one position wins
RECURSIVE ParsePeople_last_wins(_, _, _)
ParsePeople_last_wins(lines, i, people) ==
    IF i > Len(lines) THEN [ok |-> TRUE, people |-> people]
    ELSE IF ~HasContent(lines[i]) THEN ParsePeople_last_wins(lines, i + 1, people)
    ELSE LET toks == split_whitespace(lines[i])
         IN  IF Len(toks) < 2 THEN [ok |-> FALSE, people |-> people]
             ELSE LET pos == parse_usize(toks[1])
                  IN  IF pos < 0
                      THEN [ok |-> FALSE, people |-> people]
                      ELSE ParsePeople_last_wins(lines, i + 1,
                               [k \in DOMAIN people \cup {pos} |->
                                   IF k = pos THEN UserIDNew(toks[2]) ELSE people[k]])

\* the loop filling the BTreeMap `people`; ok = FALSE is a panic
RECURSIVE ParsePeople(_, _, _)
ParsePeople(lines, i, people) ==
    IF i > Len(lines) THEN [ok |-> TRUE, people |-> people]
    ELSE IF ~HasContent(lines[i]) THEN ParsePeople(lines, i + 1, people)
    ELSE LET toks == split_whitespace(lines[i])
         IN  IF Len(toks) < 2 THEN [ok |-> FALSE, people |-> people]
             ELSE LET pos == parse_usize(toks[1])
                  IN  IF pos < 0 \/ pos \in DOMAIN people
                      THEN [ok |-> FALSE, people |-> people]
                      ELSE ParsePeople(lines, i + 1,
                               [k \in DOMAIN people \cup {pos} |->
                                   IF k = pos THEN UserIDNew(toks[2]) ELSE people[k]])

EmptyPeople == [k \in {} |-> "none"]

\* the replay loop leaving out the users add_user_no_write rejects
RECURSIVE Replay_skips_rejected(_, _, _)
Replay_skips_rejected(people, keys, q) ==
    IF keys = {} THEN [ok |-> TRUE, queue |-> q]
    ELSE LET pos == CHOOSE k \in keys : \A j \in keys : k <= j
         IN  Replay_skips_rejected(people, keys \ {pos},
                                   add_user_no_write(q, people[pos]).queue)

\* the loop replaying `people` from the largest key down
RECURSIVE Replay_descending(_, _, _)
Replay_descending(people, keys, q) ==
    IF keys = {} THEN [ok |-> TRUE, queue |-> q]
    ELSE LET pos == CHOOSE k \in keys : \A j \in keys : k >= j
             r == add_user_no_write(q, people[pos])
         IN  IF r.added THEN Replay_descending(people, keys \ {pos}, r.queue)
             ELSE [ok |-> FALSE, queue |-> q]

\* the replay loop refusing every entry that repeats the one before it,
\* in a short line too
RECURSIVE Replay_no_short_line(_, _, _)
Replay_no_short_line(people, keys, q) ==
    IF keys = {} THEN [ok |-> TRUE, queue |-> q]
    ELSE LET pos == CHOOSE k \in keys : \A j \in keys : k <= j
         IN  IF Back(q) # people[pos]
             THEN Replay_no_short_line(people, keys \ {pos}, Append(q, people[pos]))
             ELSE [ok |-> FALSE, queue |-> q]

\* the loop replaying `people` in ascending key order through add_user_no_write
RECURSIVE Replay(_, _, _)
Replay(people, keys, q) ==
    IF keys = {} THEN [ok |-> TRUE, queue |-> q]
    ELSE LET pos == CHOOSE k \in keys : \A j \in keys : k <= j
             r == add_user_no_write(q, people[pos])
         IN  IF r.added THEN Replay(people, keys \ {pos}, r.queue)
             ELSE [ok |-> FALSE, queue |-> q]

\* the backup file opened with truncate(true): its content is dropped
open_backup_file_truncate(f) == <<>>

\* OpenOptions read, write, create, truncate(false): the content of the
\* file once it is open; a file that did not exist is created empty
open_backup_file(f) == f

from_file(f) ==
    LET parsed == ParsePeople(Lines(open_backup_file(f)), 1, EmptyPeople)
    IN  IF parsed.ok THEN Replay(parsed.people, DOMAIN parsed.people, <<>>)
        ELSE [ok |-> FALSE, queue |-> <<>>]

(***************************************************************************)
(* The directory of workspace members (uid_username_mapping) and Display.  *)
(* An entry is a pair of an optional real name and an optional handle,     *)
(* "none" standing for None.  In the directory the bot runs with, A is     *)
(* listed with a real name and a handle; the other users of the pool       *)
(* joined the workspace after the mapping was built and are not listed.    *)
(***************************************************************************)
uid_username_mapping ==
    [u \in {"A"} |-> [real_name |-> "Alice", username |-> "alice"]]

\* HashMap::get; found = FALSE stands for None
get_username_by_id(dir, id) ==
    IF id \in DOMAIN dir
    THEN [found |-> TRUE, real_name |-> dir[id].real_name, username |-> dir[id].username]
    ELSE [found |-> FALSE, real_name |-> "none", username |-> "none"]

\* the line of Display::fmt showing the handle whenever there is one, also
\* an empty one
DisplayLine_empty_handle(dir, idx, u) ==
    LET entry == get_username_by_id(dir, u)
        real_name == IF entry.real_name = "none" THEN u ELSE entry.real_name
    IN  [idx |-> idx, name |-> real_name, uname |-> entry.username]

\* one "{idx}. {real_name} ({uname})\n" or "{idx}. {real_name}\n" line
DisplayLine(dir, idx, u) ==
    LET entry == get_username_by_id(dir, u)
        real_name == IF entry.real_name = "none" THEN u ELSE entry.real_name
    IN  IF entry.username \notin {"none", ""}
        THEN [idx |-> idx, name |-> real_name, uname |-> entry.username]
        ELSE [idx |-> idx, name |-> real_name, uname |-> "none"]

\* Display::fmt: ok = FALSE is the panic of the expect on a missing entry
Display(dir, q) ==
    IF \A i \in 1..Len(q) : get_username_by_id(dir, q[i]).found
    THEN [ok |-> TRUE, lines |-> [i \in 1..Len(q) |-> DisplayLine(dir, i - 1, q[i])]]
    ELSE [ok |-> FALSE, lines |-> <<>>]

(***************************************************************************)
(* The replies of the command handlers, kept as records of their parts.    *)
(***************************************************************************)
Reply(kind, user, front, next, lines) ==
    [kind |-> kind, user |-> user, front |-> front, next |-> next, lines |-> lines]

NoReply == Reply("none", "none", FALSE, "none", <<>>)

\* Queue::add answering a failed save like a rejected add
AddReply_failure_as_rejection(r) ==
    CASE r.result = "UserSuccessfullyAdded"   -> Reply("added", r.user, FALSE, "none", <<>>)
      [] r.result = "UserNotAdded"            -> Reply("not_added", r.user, FALSE, "none", <<>>)
      [] r.result = "UserUnsuccessfullyAdded" -> Reply("not_added", r.user, FALSE, "none", <<>>)

\* Queue::add: the message for each AddResult
AddReply(r) ==
    CASE r.result = "UserSuccessfullyAdded"   -> Reply("added", r.user, FALSE, "none", <<>>)
      [] r.result = "UserNotAdded"            -> Reply("not_added", r.user, FALSE, "none", <<>>)
      [] r.result = "UserUnsuccessfullyAdded" -> Reply("added_backup_stale", r.user, FALSE, "none", <<>>)

\* Queue::done: the message for each RemoveResult; next is the user told
\* "You're next in line!", "nobody" for "Nobody is next in line!"
DoneReply(r) ==
    CASE r.result = "UserSuccessfullyRemoved" ->
             Reply("removed", r.user, r.idx = 0,
                   IF r.idx = 0
                   THEN (IF peek_first_user_in_line(r.queue) = "none" THEN "nobody"
                         ELSE peek_first_user_in_line(r.queue))
                   ELSE "none",
                   <<>>)
      [] r.result = "NonExistentUser" -> Reply("not_in_queue", r.user, FALSE, "none", <<>>)
      [] r.result = "UserUnsuccessfullyRemoved" ->
             Reply("removed_backup_stale", r.user, FALSE, "none", <<>>)

(***************************************************************************)
(* State.                                                                  *)
(*   queue  - Queue.queue, front first                                     *)
(*   file   - the bytes of the backup file behind Queue.db_conn            *)
(*   status - "running", or "panicked" once a handler or the loader panics *)
(*   last   - the command handled last: its kind, its sender, the user and *)
(*            result (with index) the queue operation returned, whether it *)
(*            called write_state, and the queue it started from; for a     *)
(*            done, after_add tells that the command handled just before   *)
(*            it was an add of the same sender that was admitted; for an   *)
(*            add that was saved, after_rejected is the other user whose   *)
(*            add, handled just before it, was rejected; for an add,       *)
(*            retry tells that it is the add of that user again, right     *)
(*            after such a pair                                            *)
(*   reply  - the message sent back for it                                 *)
(*   failures - how many calls of write_state returned an error            *)
(*   directory - Queue.uid_username_mapping, the map handed to the         *)
(*            constructor                                                  *)
(*   pending - the input an operation is about to be called with, when a   *)
(*            behaviour starts from one; NoInput otherwise                 *)
(***************************************************************************)
VARIABLES queue, file, status, last, reply, failures, directory, pending

vars == <<queue, file, status, last, reply, failures, directory, pending>>

NoInput == [kind |-> "none"]

Failed(result) == result \in {"UserUnsuccessfullyAdded", "UserUnsuccessfullyRemoved"}

Last(op, sender, user, result, idx, wrote, prev) ==
    [op |-> op, sender |-> sender, user |-> user, result |-> result, idx |-> idx,
     wrote |-> wrote, prev |-> prev, after_add |-> FALSE, after_rejected |-> "none",
     retry |-> FALSE]

\* Queue::new: an empty queue over a freshly created, empty backup file
Init ==
    /\ queue = <<>>
    /\ file = <<>>
    /\ status = "running"
    /\ last = Last("new", "none", "none", "none", -1, FALSE, <<>>)
    /\ reply = NoReply
    /\ failures = 0
    /\ directory = uid_username_mapping
    /\ pending = NoInput

\* Queue::add, the arm "add" of determine_response
add(u) ==
    /\ can_add(queue, u) => Len(queue) < MaxLen
    /\ \E io \in IoOutcomes(Append(queue, u), can_add(queue, u), failures) :
          \E r \in {add_user(queue, file, u, io)} :
              /\ queue' = r.queue
              /\ file' = r.file
              /\ last' = [Last("add", u, r.user, r.result, -1, r.wrote, queue)
                             EXCEPT !.after_rejected =
                                 IF /\ last.op = "add"
                                    /\ last.result = "UserNotAdded"
                                    /\ last.sender # u
                                    /\ r.result = "UserSuccessfullyAdded"
                                 THEN last.sender ELSE "none",
                                    !.retry = (last.after_rejected = u)]
              /\ reply' = AddReply(r)
              /\ failures' = IF Failed(r.result) THEN failures + 1 ELSE failures
    /\ UNCHANGED <<status, directory>>

\* Queue::done, the arm "done" of determine_response
done(u) ==
    /\ \E io \in IoOutcomes(RemoveAt(queue, Position(queue, u)),
                              Position(queue, u) # 0, failures) :
          \E r \in {remove_user(queue, file, u, io)} :
              /\ queue' = r.queue
              /\ file' = r.file
              /\ last' = [Last("done", u, r.user, r.result, r.idx, r.wrote, queue)
                             EXCEPT !.after_add = (/\ last.op = "add"
                                                   /\ last.sender = u
                                                   /\ last.result # "UserNotAdded")]
              /\ reply' = DoneReply(r)
              /\ failures' = IF Failed(r.result) THEN failures + 1 ELSE failures
    /\ UNCHANGED <<status, directory>>

\* a show that serves the head of the line as it lists it: the entry is
\* taken out and the queue saved
show_serving ==
    /\ \E d \in {Display(directory, queue)} :
           /\ status' = IF d.ok THEN "running" ELSE "panicked"
           /\ last' = Last("show", "none", "none", IF d.ok THEN "ok" ELSE "panic", -1, FALSE, queue)
           /\ reply' = IF d.ok THEN Reply("show", "none", FALSE, "none", d.lines) ELSE NoReply
    /\ queue' = IF queue = <<>> THEN queue ELSE Tail(queue)
    /\ file' = write_state(queue', file, <<"ok", 0>>).file
    /\ UNCHANGED <<failures, directory>>

\* the arm "show" of determine_response: format!("{}", self)
show ==
    /\ \E d \in {Display(directory, queue)} :
           /\ status' = IF d.ok THEN "running" ELSE "panicked"
           /\ last' = Last("show", "none", "none", IF d.ok THEN "ok" ELSE "panic", -1, FALSE, queue)
           /\ reply' = IF d.ok THEN Reply("show", "none", FALSE, "none", d.lines) ELSE NoReply
    /\ UNCHANGED <<queue, file, failures, directory>>

\* the arm "help" of determine_response
help ==
    /\ last' = Last("help", "none", "none", "ok", -1, FALSE, queue)
    /\ reply' = Reply("usage", "none", FALSE, "none", <<>>)
    /\ UNCHANGED <<queue, file, status, failures, directory>>

\* the fall-through arm of determine_response
unrecognized ==
    /\ last' = Last("unrecognized", "none", "none", "ok", -1, FALSE, queue)
    /\ reply' = Reply("unrecognized", "none", FALSE, "none", <<>>)
    /\ UNCHANGED <<queue, file, status, failures, directory>>

\* A message of user u that asks for "add" is delivered and handled.
Add(u) == status = "running" /\ add(u) /\ UNCHANGED pending

\* A message of user u that asks for "done" is delivered and handled.
Done(u) == status = "running" /\ done(u) /\ UNCHANGED pending

\* A message that asks for "show" is delivered and handled.
Show == status = "running" /\ show /\ UNCHANGED pending

\* A message that asks for "help" is delivered and handled.
Help == status = "running" /\ help /\ UNCHANGED pending

\* A message with no command word is delivered and handled.
Unrecognized == status = "running" /\ unrecognized /\ UNCHANGED pending

\* The process stops (killed, or after a panic) and is started again on the
\* same backup file: Queue::from_file.
Restart ==
    /\ \E l \in {from_file(file)} :
           /\ queue' = l.queue
           /\ status' = IF l.ok THEN "running" ELSE "panicked"
           /\ last' = Last("load", "none", "none", IF l.ok THEN "ok" ELSE "panic", -1, FALSE, <<>>)
    /\ file' = open_backup_file(file)
    /\ reply' = NoReply
    /\ UNCHANGED <<failures, directory, pending>>

Next ==
    \/ \E u \in Users : Add(u)
    \/ \E u \in Users : Done(u)
    \/ Show
    \/ Help
    \/ Unrecognized
    \/ Restart

Spec == Init /\ [][Next]_vars

(***************************************************************************)
(* Starting on an existing backup file: Queue::from_file(path) for a file  *)
(* of up to MaxLines lines.  Line k of a file carries the position a saved *)
(* snapshot has there (k - 1), the position of the line before it (a       *)
(* duplicate, or lines out of order), or the position after it (a gap);    *)
(* at most one line of a file is an odd one: blank, short of a user id, or *)
(* with a position token that is signed or no number.                      *)
(***************************************************************************)
LinePositions(k) == {p \in {k - 2, k - 1, k} : p >= 0}

\* the loader compares uids for equality only: two of them make every case
SnapshotUsers == {UserPool[1], UserPool[2]}

SnapshotLine(p, u) == FormatUsize(p) \o <<"\t">> \o FormatUserID(u) \o <<"\n">>

OddLines ==
    { <<" ", "\n">>,
      <<"0", "\n">>,
      <<"x", "\t", "A", "\n">>,
      <<"-", "1", "\t", "A", "\n">>,
      <<"+", "1", "\t", "A", "\n">> }

\* the files made of lines k..n; odd = an odd line may still be used
RECURSIVE SnapshotsFrom(_, _, _)
SnapshotsFrom(k, n, odd) ==
    IF k > n THEN {<<>>}
    ELSE {SnapshotLine(p, u) \o rest :
              p \in LinePositions(k), u \in SnapshotUsers, rest \in SnapshotsFrom(k + 1, n, odd)}
         \cup (IF odd
               THEN {l \o rest : l \in OddLines, rest \in SnapshotsFrom(k + 1, n, FALSE)}
               ELSE {})

\* the files of up to max lines
SnapshotFiles(max) == UNION {SnapshotsFrom(1, n, TRUE) : n \in 0..max}

\* the process is about to call Queue::from_file on one of these files
LoadInit ==
    /\ queue = <<>>
    /\ file \in SnapshotFiles(MaxLines)
    /\ status = "starting"
    /\ last = Last("start", "none", "none", "none", -1, FALSE, <<>>)
    /\ reply = NoReply
    /\ failures = 0
    /\ directory = uid_username_mapping
    /\ pending = NoInput

LoadNext == Restart

LoadSpec == LoadInit /\ [][LoadNext]_vars

(***************************************************************************)
(* The read-only operations, show and peek_first_user_in_line, on a queue  *)
(* of up to MaxShown entries and a directory of any shape: every user      *)
(* listed or not, with or without a real name, with a handle, an empty     *)
(* handle or none.                                                         *)
(***************************************************************************)
RealName(u) ==
    CASE u = "A" -> "Alice" [] u = "B" -> "Bob" [] u = "C" -> "Carol" [] u = "D" -> "Dana"

Handle(u) ==
    CASE u = "A" -> "alice" [] u = "B" -> "bob" [] u = "C" -> "carol" [] u = "D" -> "dana"

Entries(u) ==
    {[real_name |-> r, username |-> h] : r \in {"none", RealName(u)},
                                         h \in {"none", "", Handle(u)}}

Directories ==
    UNION {{d \in [S -> UNION {Entries(u) : u \in S}] : \A u \in S : d[u] \in Entries(u)} :
              S \in SUBSET Users}

\* every sequence of up to n users
QueuesUpTo(n) == UNION {[1..k -> Users] : k \in 0..n}

ReadInit ==
    /\ queue \in QueuesUpTo(MaxShown)
    /\ file = Serialize(queue)
    /\ status = "running"
    /\ last = Last("start", "none", "none", "none", -1, FALSE, <<>>)
    /\ reply = NoReply
    /\ failures = 0
    /\ directory \in Directories
    /\ pending = NoInput

\* a call of peek_first_user_in_line; last.user is what it returns
Peek ==
    /\ status = "running"
    /\ last' = Last("peek", "none", peek_first_user_in_line(queue), "ok", -1, FALSE, queue)
    /\ reply' = NoReply
    /\ UNCHANGED <<queue, file, status, failures, directory, pending>>

ReadNext ==
    \/ Show
    \/ Peek

ReadSpec == ReadInit /\ [][ReadNext]_vars

(***************************************************************************)
(* on_event on one Slack message.  A text is a sequence of units: the      *)
(* mention of the bot as QUEUE_UID writes it, in lower case or in mixed    *)
(* case, a blank, or a word.                                               *)
(***************************************************************************)
QUEUE_UID == "<@U01A844Q2US>"

lowercase_queue_id == "<@u01a844q2us>"

MixedCaseMention == "<@U01a844q2us>"

Mentions == {QUEUE_UID, lowercase_queue_id, MixedCaseMention}

CommandWords == {"add", "done", "show", "help"}

\* char::to_lowercase over one unit
LowerUnit(x) ==
    CASE x \in Mentions -> lowercase_queue_id
      [] x = "ADD"      -> "add"
      [] OTHER          -> x

\* str::to_lowercase
to_lowercase(text) == [i \in 1..Len(text) |-> LowerUnit(text[i])]

\* str::contains(QUEUE_UID)
is_app_mention(text) == \E i \in 1..Len(text) : text[i] = QUEUE_UID

\* str::trim_start_matches(pat): every leading repetition of pat is dropped
RECURSIVE trim_start_matches(_, _)
trim_start_matches(body, pat) ==
    IF body # <<>> /\ body[1] = pat THEN trim_start_matches(Tail(body), pat) ELSE body

RECURSIVE trim_end(_)
trim_end(body) ==
    IF body # <<>> /\ body[Len(body)] = " "
    THEN trim_end(SubSeq(body, 1, Len(body) - 1))
    ELSE body

\* str::trim
trim(body) == trim_end(trim_start_matches(body, " "))

\* determine_response matching a command word at the start of the body
determine_response_prefix(text) ==
    LET body == trim(trim_start_matches(to_lowercase(text), lowercase_queue_id))
    IN  IF body # <<>> /\ body[1] \in CommandWords THEN body[1] ELSE "unrecognized"

\* determine_response: the arm of the match the text is dispatched to
determine_response(text) ==
    LET body == trim(trim_start_matches(to_lowercase(text), lowercase_queue_id))
    IN  IF Len(body) = 1 /\ body[1] \in CommandWords THEN body[1] ELSE "unrecognized"

\* the texts: a mention or none in front, a blank or none, a command word,
\* another word, two words or none, and a blank, a mention or nothing behind
Messages ==
    {front \o gap \o word \o back :
        front \in {<<>>, <<QUEUE_UID>>, <<lowercase_queue_id>>, <<MixedCaseMention>>,
                   <<QUEUE_UID, QUEUE_UID>>, <<" ", QUEUE_UID>>},
        gap \in {<<>>, <<" ">>},
        word \in {<<>>, <<"add">>, <<"ADD">>, <<"done">>, <<"show">>, <<"help">>,
                  <<"foo">>, <<"add", " ", "foo">>},
        back \in {<<>>, <<" ">>, <<" ", QUEUE_UID>>}}

Message(u, text) == [kind |-> "message", user |-> u, text |-> text]

\* Slack delivers one message to a bot that holds some queue, saved
MsgInit ==
    /\ queue \in QueuesUpTo(MaxShown)
    /\ file = Serialize(queue)
    /\ status = "running"
    /\ last = Last("start", "none", "none", "none", -1, FALSE, <<>>)
    /\ reply = NoReply
    /\ failures = 0
    /\ directory = uid_username_mapping
    /\ pending \in {Message(u, text) : u \in Users, text \in Messages}

\* on_event for a standard message: ignored unless is_app_mention, else
\* answered by the arm determine_response dispatches it to
OnEvent ==
    /\ status = "running"
    /\ pending.kind = "message"
    /\ pending' = [pending EXCEPT !.kind = "handled"]
    /\ IF is_app_mention(pending.text)
       THEN \E arm \in {determine_response(pending.text)} :
                \/ arm = "add" /\ add(pending.user)
                \/ arm = "done" /\ done(pending.user)
                \/ arm = "show" /\ show
                \/ arm = "help" /\ help
                \/ arm = "unrecognized" /\ unrecognized
       ELSE /\ last' = Last("ignored", "none", "none", "ok", -1, FALSE, queue)
            /\ reply' = NoReply
            /\ UNCHANGED <<queue, file, status, failures, directory>>

MsgNext == OnEvent

MsgSpec == MsgInit /\ [][MsgNext]_vars

(***************************************************************************)
(* The handlers as the steps they are made of.  done is remove_user and    *)
(* then, for a removal at the front, peek_first_user_in_line on the queue  *)
(* as it stands; pending holds the position of the running handler.        *)
(***************************************************************************)
\* on_event borrowing the queue as &self: handlers may overlap
shared(p) == TRUE

\* on_event(&mut self): a handler starts only when no handler is running
exclusive(p) == p = NoInput

SerialAdd(u) == exclusive(pending) /\ Add(u)

\* done up to the return of remove_user
DoneRemove(u) ==
    /\ status = "running"
    /\ exclusive(pending)
    /\ \E io \in IoOutcomes(RemoveAt(queue, Position(queue, u)),
                              Position(queue, u) # 0, failures) :
          \E r \in {remove_user(queue, file, u, io)} :
              /\ queue' = r.queue
              /\ file' = r.file
              /\ failures' = IF Failed(r.result) THEN failures + 1 ELSE failures
              /\ pending' = [kind |-> "in_done", user |-> u, r |-> r, prev |-> queue]
    /\ UNCHANGED <<status, last, reply, directory>>

\* the rest of done: the message, its next in line read from self.queue
DoneLookup ==
    /\ pending.kind = "in_done"
    /\ \E r \in {[pending.r EXCEPT !.queue = queue]} :
           /\ last' = [Last("done", pending.user, r.user, r.result, r.idx, r.wrote,
                            pending.prev)
                          EXCEPT !.after_add = (/\ last.op = "add"
                                                /\ last.sender = pending.user
                                                /\ last.result # "UserNotAdded")]
           /\ reply' = DoneReply(r)
    /\ pending' = NoInput
    /\ UNCHANGED <<queue, file, status, failures, directory>>

SerialNext ==
    \/ \E u \in Users : SerialAdd(u)
    \/ \E u \in Users : DoneRemove(u)
    \/ DoneLookup

SerialSpec == Init /\ [][SerialNext]_vars

(***************************************************************************)
(* user.rs: a UserID that carries its position in line, and its equality.  *)
(***************************************************************************)
\* UserID::new(user_id, ordinal)
UserID(user_id, ordinal) == [uid |-> user_id, position |-> ordinal]

UserIDs == {UserID(UserPool[i], n) : i \in DOMAIN UserPool, n \in 0..MaxPosition}

\* PartialEq for UserID deriving its comparison from every field
eq_derived(self, other) == self = other

\* PartialEq::eq for UserID
eq(self, other) == self.uid = other.uid

EqInit ==
    /\ queue = <<>>
    /\ file = <<>>
    /\ status = "running"
    /\ last = Last("start", "none", "none", "none", -1, FALSE, <<>>)
    /\ reply = NoReply
    /\ failures = 0
    /\ directory = uid_username_mapping
    /\ pending \in {[kind |-> "pair", self |-> a, other |-> b] : a \in UserIDs, b \in UserIDs}

\* self == other is evaluated
Compare ==
    /\ last.op = "start"
    /\ last' = Last("eq", "none", "none",
                    IF eq(pending.self, pending.other) THEN "equal" ELSE "not_equal",
                    -1, FALSE, queue)
    /\ UNCHANGED <<queue, file, status, reply, failures, directory, pending>>

EqNext == Compare

EqSpec == EqInit /\ [][EqNext]_vars

(***************************************************************************)
(* bin/main.rs: the "done" arm that serves the head of the line only.      *)
(* remove_first_user_in_line is called there and defined in no file of     *)
(* src/; it follows its description, remove_first() -> Option<UserID>:     *)
(* "pops and returns the head, or None if empty".                          *)
(***************************************************************************)
\* remove_first_user_in_line taking the entry at the other end (pop_back)
remove_first_user_in_line_back(q) ==
    IF Len(q) = 0
    THEN [queue |-> q, user |-> "none"]
    ELSE [queue |-> SubSeq(q, 1, Len(q) - 1), user |-> q[Len(q)]]

remove_first_user_in_line(q) ==
    IF Len(q) = 0
    THEN [queue |-> q, user |-> "none"]
    ELSE [queue |-> Tail(q), user |-> q[1]]

FrontInit ==
    /\ queue \in QueuesUpTo(MaxLen)
    /\ file = Serialize(queue)
    /\ status = "running"
    /\ last = Last("start", "none", "none", "none", -1, FALSE, <<>>)
    /\ reply = NoReply
    /\ failures = 0
    /\ directory = uid_username_mapping
    /\ pending = NoInput

\* a call of remove_first_user_in_line
RemoveFirst ==
    /\ \E r \in {remove_first_user_in_line(queue)} :
           /\ queue' = r.queue
           /\ last' = Last("remove_first", "none", r.user, "ok", -1, FALSE, queue)
    /\ reply' = NoReply
    /\ UNCHANGED <<file, status, failures, directory, pending>>

\* the arm "done" of determine_response in bin/main.rs, for a message of u
DoneAtFront(u) ==
    /\ IF peek_first_user_in_line(queue) # "none" /\ peek_first_user_in_line(queue) = u
       THEN \E r \in {remove_first_user_in_line(queue)} :
                /\ queue' = r.queue
                /\ last' = Last("done_front", u, r.user, "removed", -1, FALSE, queue)
                /\ reply' = Reply("removed_front", r.user, TRUE, "none", <<>>)
       ELSE /\ queue' = queue
            /\ last' = Last("done_front", u, u, "not_at_front", -1, FALSE, queue)
            /\ reply' = Reply("not_at_front", u, FALSE, "none", <<>>)
    /\ UNCHANGED <<file, status, failures, directory, pending>>

FrontNext ==
    \/ RemoveFirst
    \/ \E u \in Users : DoneAtFront(u)

FrontSpec == FrontInit /\ [][FrontNext]_vars

(***************************************************************************)
(* Histories without removals: the bot handles adds only and may be        *)
(* started again on its backup file.                                       *)
(***************************************************************************)
AddNext ==
    \/ \E u \in Users : Add(u)
    \/ Restart

AddSpec == Init /\ [][AddNext]_vars

(***************************************************************************)
(* write_state statement by statement.  The queue in memory has just been  *)
(* changed by add_user_no_write or by VecDeque::remove and is about to be  *)
(* saved over the snapshot of the queue before the change (pending.old),   *)
(* which may be followed by the blanks an earlier, longer snapshot left.   *)
(* db_conn is a BufWriter: write_all puts the bytes in its buffer, and     *)
(* they reach the file when the buffer is flushed, by the next seek or by  *)
(* flush.  pending.pc is the statement to run next.                        *)
(***************************************************************************)
\* the queues add_user and remove_user hand to write_state, coming from old
Changed(old) ==
    {add_user_no_write(old, u).queue : u \in {v \in Users : can_add(old, v)}}
        \cup {RemoveAt(old, Position(old, u)) : u \in {v \in Users : Position(old, v) # 0}}

SaveState(pc, old, before, num_bytes, buffer, result) ==
    [kind |-> "save", pc |-> pc, old |-> old, before |-> before,
     num_bytes |-> num_bytes, buffer |-> buffer, result |-> result]

SaveInit ==
    /\ \E old \in QueuesUpTo(MaxShown) :
           /\ queue \in Changed(old)
           /\ file \in {Serialize(old), Serialize(old) \o Blanks(Len(Serialize(<<UserPool[1]>>)))}
           /\ pending = SaveState("measure", old, file, 0, <<>>, "running")
    /\ status = "running"
    /\ last = Last("start", "none", "none", "none", -1, FALSE, <<>>)
    /\ reply = NoReply
    /\ failures = 0
    /\ directory = uid_username_mapping

\* let num_bytes = self.db_conn.seek(SeekFrom::End(0))?
Measure ==
    /\ pending.kind = "save" /\ pending.pc = "measure"
    /\ pending' = [pending EXCEPT !.pc = "rewind", !.num_bytes = Len(file)]
    /\ UNCHANGED <<queue, file, status, last, reply, failures, directory>>

\* self.db_conn.seek(SeekFrom::Start(0))?
Rewind ==
    /\ pending.kind = "save" /\ pending.pc = "rewind"
    /\ pending' = [pending EXCEPT !.pc = "pad"]
    /\ UNCHANGED <<queue, file, status, last, reply, failures, directory>>

\* self.db_conn.write_all(&*blanks)?
Pad ==
    /\ pending.kind = "save" /\ pending.pc = "pad"
    /\ pending' = [pending EXCEPT !.pc = "rewind_again",
                                  !.buffer = Blanks(pending.num_bytes)]
    /\ UNCHANGED <<queue, file, status, last, reply, failures, directory>>

\* self.db_conn.seek(SeekFrom::Start(0))?, which flushes the blanks
RewindAgain ==
    /\ pending.kind = "save" /\ pending.pc = "rewind_again"
    /\ file' = WriteAtStart(file, pending.buffer)
    /\ pending' = [pending EXCEPT !.pc = "write", !.buffer = <<>>]
    /\ UNCHANGED <<queue, status, last, reply, failures, directory>>

\* self.db_conn.write_all(output.as_slice())?
WriteContent ==
    /\ pending.kind = "save" /\ pending.pc = "write"
    /\ pending' = [pending EXCEPT !.pc = "flush", !.buffer = Serialize(queue)]
    /\ UNCHANGED <<queue, file, status, last, reply, failures, directory>>

\* self.db_conn.flush() returning Ok
Flush ==
    /\ pending.kind = "save" /\ pending.pc = "flush"
    /\ file' = WriteAtStart(file, pending.buffer)
    /\ pending' = [pending EXCEPT !.pc = "done", !.buffer = <<>>, !.result = "ok"]
    /\ last' = Last("save", "none", "none", "ok", -1, TRUE, pending.old)
    /\ UNCHANGED <<queue, status, reply, failures, directory>>

\* one of the seeks returns its error through `?`: no byte reached the file
SeekFails ==
    /\ pending.kind = "save" /\ pending.pc \in {"measure", "rewind", "rewind_again"}
    /\ failures < MaxFailures
    /\ failures' = failures + 1
    /\ pending' = [pending EXCEPT !.pc = "done", !.buffer = <<>>, !.result = "seek"]
    /\ last' = Last("save", "none", "none", "seek", -1, TRUE, pending.old)
    /\ UNCHANGED <<queue, file, status, reply, directory>>

\* flush returns its error after n bytes of the new content reached the file
FlushFails ==
    /\ pending.kind = "save" /\ pending.pc = "flush"
    /\ failures < MaxFailures
    /\ failures' = failures + 1
    /\ \E n \in 0..Min(MaxPartial, Len(pending.buffer) - 1) :
           file' = WriteAtStart(file, SubSeq(pending.buffer, 1, n))
    /\ pending' = [pending EXCEPT !.pc = "done", !.buffer = <<>>, !.result = "write"]
    /\ last' = Last("save", "none", "none", "write", -1, TRUE, pending.old)
    /\ UNCHANGED <<queue, status, reply, directory>>

SaveNext ==
    \/ Measure
    \/ Rewind
    \/ Pad
    \/ RewindAgain
    \/ WriteContent
    \/ Flush
    \/ SeekFails
    \/ FlushFails

SaveSpec == SaveInit /\ [][SaveNext]_vars

(***************************************************************************)
(* Properties.                                                             *)
(***************************************************************************)
Admitted(l) == l.op = "add" /\ l.result # "UserNotAdded"

Rejected(l) == l.op = "add" /\ l.result = "UserNotAdded"

Occurs(u, q) == \E i \in 1..Len(q) : q[i] = u

\* C1: an add by user u is admitted if and only if the queue it meets has
\* fewer than 3 entries or its tail entry is not u (an empty queue always
\* admits).
C1_AdmissionRule ==
    last.op = "add" =>
        (last.result # "UserNotAdded"
            <=> (Len(last.prev) < 3 \/ last.prev[Len(last.prev)] # last.sender))

C1_Witness ==
    /\ Rejected(last)
    /\ Len(last.prev) = 3
    /\ last.prev[3] = last.sender

\* C2: from the empty queue the same user is admitted three times in a row;
\* the fourth and every further consecutive add is rejected and the queue
\* stays at those three entries.
C2_ThreeThenRejected ==
    \A u \in Users :
        /\ (last.op = "add" /\ last.sender = u /\ last.prev \in {<<>>, <<u>>, <<u, u>>})
              => (last.result # "UserNotAdded" /\ queue = Append(last.prev, u))
        /\ (last.op = "add" /\ last.sender = u /\ last.prev = <<u, u, u>>)
              => (last.result = "UserNotAdded" /\ queue = <<u, u, u>>)

C2_Witness ==
    /\ Rejected(last)
    /\ last.prev = <<"A", "A", "A">>
    /\ last.sender = "A"
    /\ queue = <<"A", "A", "A">>

\* C3: only the tail counts: a user who is not the tail entry is admitted at
\* any queue length, however many entries they already have, and becomes the
\* tail; with 3 or more entries waiting and the user at the tail, their add
\* is rejected.
C3_TailOnly ==
    /\ (last.op = "add" /\ last.prev # <<>> /\ last.prev[Len(last.prev)] # last.sender)
          => (/\ last.result # "UserNotAdded"
              /\ Len(queue) = Len(last.prev) + 1
              /\ queue[Len(queue)] = last.sender)
    /\ (last.op = "add" /\ Len(last.prev) >= 3 /\ last.prev[Len(last.prev)] = last.sender)
          => last.result = "UserNotAdded"

C3_Witness ==
    /\ Admitted(last)
    /\ Len(last.prev) >= 3
    /\ Cardinality({i \in 1..Len(last.prev) : last.prev[i] = last.sender}) >= 2
    /\ queue[Len(queue)] = last.sender

C5_RejectedAddNoChange ==
    [][Rejected(last') => (queue' = queue /\ file' = file /\ ~last'.wrote)]_vars

C5_Witness ==
    /\ Rejected(last)
    /\ queue = last.prev
    /\ Len(queue) >= 3

\* C6: a successful add appends exactly one entry, the sender, at the tail
\* and leaves the earlier entries and their order as they were; the user it
\* returns is the user passed in.
C6_AppendAtTail ==
    Admitted(last) => (queue = Append(last.prev, last.sender) /\ last.user = last.sender)

C6_Witness ==
    /\ Admitted(last)
    /\ Len(last.prev) >= 2
    /\ last.prev[1] # last.sender

C8_RemoveAbsentNoChange ==
    [][(last'.op = "done" /\ status = "running" /\ ~Occurs(last'.sender, queue))
          => (/\ last'.result = "NonExistentUser"
              /\ queue' = queue
              /\ file' = file
              /\ ~last'.wrote)]_vars

C8_Witness ==
    /\ last.op = "done"
    /\ last.result = "NonExistentUser"
    /\ queue # <<>>
    /\ queue = last.prev

\* C9: a failed save does not roll the mutation back and is not fatal:
\* after an add whose save failed the queue holds the added entry, after a
\* done whose save failed it lacks the removed entry, the bot keeps
\* running, and the next command is served from that queue (a done by the
\* user just added finds them).
C9_NoRollback ==
    [][/\ (Failed(last'.result) /\ last'.op = "add")
             => (queue' = Append(queue, last'.sender) /\ status' = "running")
       /\ (Failed(last'.result) /\ last'.op = "done")
             => (/\ Len(queue') = Len(queue) - 1
                 /\ \E i \in 1..Len(queue) :
                       /\ queue[i] = last'.sender
                       /\ queue' = SubSeq(queue, 1, i - 1) \o SubSeq(queue, i + 1, Len(queue))
                 /\ status' = "running")
       /\ (last.result = "UserUnsuccessfullyAdded" /\ last'.op = "done"
              /\ last'.sender = last.sender)
             => last'.result # "NonExistentUser"
       /\ (last.result = "UserUnsuccessfullyRemoved" /\ last'.op = "show"
              /\ last'.result = "ok")
             => Len(reply'.lines) = Len(last.prev) - 1]_vars

C9_Witness ==
    /\ last.op = "add"
    /\ last.result = "UserUnsuccessfullyAdded"
    /\ queue = Append(last.prev, last.sender)
    /\ from_file(file).queue # queue

\* C10: after every add or done whose save succeeded, loading the backup
\* file yields a queue equal to the in-memory queue.
C10_SaveLoadRoundTrip ==
    (last.op \in {"add", "done"}
        /\ last.result \in {"UserSuccessfullyAdded", "UserSuccessfullyRemoved"})
        => (from_file(file).ok /\ from_file(file).queue = queue)

(***************************************************************************)
(* The backup file as a reader of the format sees it: its lines that are   *)
(* not blank, the position and the user id each of them records.           *)
(***************************************************************************)
ContentLines(f) == SelectSeq(Lines(f), HasContent)

PositionOf(line) == parse_usize(split_whitespace(line)[1])

UserOf(line) == UserIDNew(split_whitespace(line)[2])

\* every line records a position and a user id, no position twice
WellFormed(f) ==
    LET cl == ContentLines(f)
    IN  /\ \A i \in 1..Len(cl) :
              Len(split_whitespace(cl[i])) >= 2 /\ PositionOf(cl[i]) >= 0
        /\ \A i, j \in 1..Len(cl) : i # j => PositionOf(cl[i]) # PositionOf(cl[j])

\* the place of line i when the lines are put in position order
Rank(cl, i) == Cardinality({j \in 1..Len(cl) : PositionOf(cl[j]) < PositionOf(cl[i])}) + 1

Loaded == last.op = "load"

\* C11: loading a file whose positions are not contiguous from 0 (0 and 2
\* with 1 missing) fails fatally.
C11_GapFailsLoad ==
    LET cl == ContentLines(file)
    IN  (/\ Loaded
         /\ WellFormed(file)
         /\ {PositionOf(cl[i]) : i \in 1..Len(cl)} # 0..(Len(cl) - 1))
            => status = "panicked"

\* C12: loading a file whose entries, taken in position order, break the
\* admission rule (an entry at place 4 or later that repeats the user of the
\* entry before it) fails fatally: no queue, repaired or truncated, is
\* served from it.
C12_RuleBreakingFileFailsLoad ==
    LET cl == ContentLines(file)
    IN  (/\ Loaded
         /\ WellFormed(file)
         /\ \E i, j \in 1..Len(cl) :
               /\ Rank(cl, j) = Rank(cl, i) + 1
               /\ Rank(cl, j) > ShortLine
               /\ UserOf(cl[i]) = UserOf(cl[j]))
            => status = "panicked"

C12_Witness ==
    /\ Loaded
    /\ file = Serialize(<<"A", "A", "A", "A">>)
    /\ status = "panicked"

\* C13: loading a file in which two lines carry the same position value, or
\* in which the position of a line is not a non-negative integer, fails
\* fatally.
C13_BadPositionFailsLoad ==
    LET cl == ContentLines(file)
    IN  (/\ Loaded
         /\ \/ \E i \in 1..Len(cl) : PositionOf(cl[i]) < 0
            \/ \E i, j \in 1..Len(cl) : i # j /\ PositionOf(cl[i]) = PositionOf(cl[j]))
            => status = "panicked"

C13_Witness ==
    LET cl == ContentLines(file)
    IN  /\ Loaded
        /\ status = "panicked"
        /\ Len(cl) >= 2
        /\ \A i \in 1..Len(cl) :
              Len(split_whitespace(cl[i])) >= 2 /\ PositionOf(cl[i]) >= 0
        /\ PositionOf(cl[1]) = PositionOf(cl[2])
        /\ split_whitespace(cl[1])[1] # split_whitespace(cl[2])[1]

Saved(l) == l.result \in {"UserSuccessfullyAdded", "UserSuccessfullyRemoved"}

\* C14: after every successful save the lines of the backup file that are
\* not blank are one per queue entry, in queue order: line i records
\* position i - 1 and the user id of the entry at that index; nothing of an
\* earlier, longer snapshot is left among them.
C14_SnapshotMatchesQueue ==
    Saved(last) =>
        LET cl == ContentLines(file)
        IN  /\ Len(cl) = Len(queue)
            /\ \A i \in 1..Len(cl) :
                  split_whitespace(cl[i]) = <<FormatUsize(i - 1), FormatUserID(queue[i])>>

C14_Witness ==
    /\ last.op = "done"
    /\ Saved(last)
    /\ Len(queue) >= 1
    /\ Len(file) > Len(Serialize(queue))
    /\ Len(ContentLines(file)) = Len(queue)

RemovedEntry(l) == l.op = "done" /\ l.result # "NonExistentUser"

\* C15: whenever a done removes the entry that was at the head, the reply
\* has a follow-up naming the user at the head after the removal, or saying
\* that nobody is next when the queue became empty; when the removed entry
\* was not at the head the reply has no follow-up.
C15_FollowUpAtHead ==
    RemovedEntry(last) =>
        IF last.prev[1] = last.sender
        THEN reply.next = (IF queue = <<>> THEN "nobody" ELSE queue[1])
        ELSE reply.next = "none"

\* C16: when the save fails after a removal, the result reports the 0-based
\* index the removed entry had, together with the error.
C16_FailedRemoveReportsIndex ==
    (last.op = "done" /\ last.result = "UserUnsuccessfullyRemoved") =>
        \E i \in 1..Len(last.prev) :
            /\ last.prev[i] = last.sender
            /\ \A j \in 1..(i - 1) : last.prev[j] # last.sender
            /\ last.idx = i - 1

\* C17: when an add or a done changes the queue and the save fails, the
\* reply tells the sender that they were added (removed) and that the backup
\* file does not reflect it; it is not the reply of a rejected add or of a
\* done by a user who is not in the queue.
C17_FailedSaveReply ==
    /\ (last.op = "add" /\ Failed(last.result))
          => (/\ queue = Append(last.prev, last.sender)
              /\ reply.kind = "added_backup_stale"
              /\ reply.user = last.sender)
    /\ (last.op = "done" /\ Failed(last.result))
          => (/\ Len(queue) = Len(last.prev) - 1
              /\ reply.kind = "removed_backup_stale"
              /\ reply.user = last.sender)
    /\ Failed(last.result) => reply.kind \notin {"not_added", "not_in_queue"}

C17_Witness ==
    /\ last.op = "add"
    /\ Failed(last.result)
    /\ reply.kind = "added_backup_stale"
    /\ queue # last.prev

\* the queue before the add that a done with after_add follows
BeforeAdd(l) == SubSeq(l.prev, 1, Len(l.prev) - 1)

\* C18 as stated: an admitted add(u) followed immediately by remove(u)
\* returns the queue to the content it had before the add, also when u
\* already had entries.
C18_Original ==
    (last.op = "done" /\ last.after_add) => queue = BeforeAdd(last)

\* C18, amended: an admitted add(u) followed immediately by remove(u)
\* returns the queue to the content it had before the add exactly when, before
\* the add, no entry of another user stood behind an entry of u (so when u
\* had no entry); otherwise remove takes u's earliest entry and the new
\* entry stays at the tail.
C18_AddThenRemove ==
    (last.op = "done" /\ last.after_add) =>
        (queue = BeforeAdd(last)
            <=> \A i, j \in 1..Len(BeforeAdd(last)) :
                    (i < j /\ BeforeAdd(last)[i] = last.sender)
                        => BeforeAdd(last)[j] = last.sender)

C18_Witness ==
    /\ last.op = "done"
    /\ last.after_add
    /\ BeforeAdd(last) # <<>>
    /\ ~Occurs(last.sender, BeforeAdd(last))
    /\ queue = BeforeAdd(last)

\* C19 as stated, for the command that follows the add: after an admitted
\* add(u) into a line that then has 3 or more entries, can_add(u) is false,
\* and the next command leaves it false unless the line drops below 3
\* entries or a different user is admitted.
C19_Original ==
    [][(/\ last.result = "UserSuccessfullyAdded"
        /\ Len(queue) >= ShortLine
        /\ last'.op # "load")
          => (/\ ~can_add(queue, last.sender)
              /\ can_add(queue', last.sender)
                    => (\/ Len(queue') < ShortLine
                        \/ Admitted(last') /\ last'.sender # last.sender))]_vars

\* C19, amended: after an admitted add(u) that leaves 3 or more entries,
\* can_add(u) is false; and whenever can_add(u) is false, it stays false
\* over every command until the line drops below 3 entries, a different
\* user is admitted, a done by u removes u's only entry (the tail), or the
\* queue is loaded again from the backup file.
C19_StaysRejected ==
    [][/\ (Admitted(last') /\ Len(queue') >= ShortLine)
             => ~can_add(queue', last'.sender)
       /\ \A u \in Users :
             (~can_add(queue, u) /\ can_add(queue', u))
                => \/ Len(queue') < ShortLine
                   \/ Admitted(last') /\ last'.sender # u
                   \/ RemovedEntry(last') /\ last'.sender = u /\ ~Occurs(u, queue')
                   \/ last'.op = "load"]_vars

C19_Witness ==
    /\ RemovedEntry(last)
    /\ Len(queue) >= ShortLine
    /\ last.sender # queue[Len(queue)]
    /\ last.prev[Len(last.prev)] = queue[Len(queue)]
    /\ ~can_add(queue, queue[Len(queue)])

\* C20: show never fails for a queue entry whose user is missing from the
\* directory: the reply has a line for every entry, and the line of such an
\* entry shows the raw user id.
C20_ShowNeverFails ==
    last.op = "show" =>
        /\ last.result = "ok"
        /\ Len(reply.lines) = Len(queue)
        /\ \A i \in 1..Len(queue) :
              queue[i] \notin DOMAIN directory
                  => reply.lines[i].name = queue[i]

C22_PeekFirst ==
    [][last'.op = "peek"
          => (/\ last'.user = (IF queue = <<>> THEN "none" ELSE queue[1])
              /\ queue' = queue
              /\ file' = file)]_vars

C22_Witness ==
    /\ last.op = "peek"
    /\ Len(queue) >= 2
    /\ last.user = queue[1]
    /\ queue[1] # queue[Len(queue)]

Handled == pending.kind = "handled"

\* the text with the mentions in front of it, in any letter case, taken off
RECURSIVE StripMention(_)
StripMention(text) ==
    IF text # <<>> /\ text[1] \in Mentions THEN StripMention(Tail(text)) ELSE text

IsCommandWord(rest) == Len(rest) = 1 /\ rest[1] \in CommandWords

\* C23 as stated: a message that mentions the bot and whose text, the
\* mention stripped and the whitespace trimmed, is not one of the words add,
\* done, show, help gets the unrecognized-command reply and leaves queue and
\* backup file as they were.
C23_Original ==
    (/\ Handled
     /\ is_app_mention(pending.text)
     /\ ~IsCommandWord(trim(StripMention(pending.text))))
        => (/\ reply.kind = "unrecognized"
            /\ queue = last.prev
            /\ file = Serialize(last.prev))

\* C23, amended: the command word is matched in any letter case ("ADD" is
\* add); a message that mentions the bot and whose text, put in lower case,
\* the mention stripped from its start and the whitespace trimmed, is not
\* one of the words add, done, show, help gets the unrecognized-command
\* reply and leaves queue and backup file as they were.
C23_UnrecognizedNoChange ==
    (/\ Handled
     /\ is_app_mention(pending.text)
     /\ ~IsCommandWord(trim(StripMention(to_lowercase(pending.text)))))
        => (/\ reply.kind = "unrecognized"
            /\ queue = last.prev
            /\ file = Serialize(last.prev))

C23_Witness ==
    /\ Handled
    /\ pending.text = <<QUEUE_UID, " ", "add", " ", "foo">>
    /\ reply.kind = "unrecognized"
    /\ queue = <<"A", "B">>
    /\ file = Serialize(queue)

\* C24: a message made of the mention in any letter case, a blank and a
\* command word is handled: the operation of that word is performed.
C24_AnyCaseMention ==
    (/\ Handled
     /\ Len(pending.text) = 3
     /\ pending.text[1] \in Mentions
     /\ pending.text[2] = " "
     /\ pending.text[3] \in CommandWords)
        => last.op = pending.text[3]

InDone == pending.kind = "in_done"

\* C25: commands are applied one at a time: the step that follows the
\* removal of a done is the rest of that same done, which finds the queue
\* and the file as its removal left them and builds the reply a done
\* applied in one piece builds; and a command that starts changes the queue
\* as its sequential application does (add appends or leaves it, done takes
\* out the sender's first entry or leaves it).
C25_OneAtATime ==
    [][/\ InDone =>
            (/\ pending' = NoInput
             /\ last'.op = "done"
             /\ last'.prev = pending.prev
             /\ queue' = pending.r.queue
             /\ file' = pending.r.file
             /\ reply' = DoneReply(pending.r))
       /\ ~InDone =>
            \E u \in Users :
                \/ /\ last'.op = "add"
                   /\ last'.sender = u
                   /\ pending' = NoInput
                   /\ queue' = IF can_add(queue, u) THEN Append(queue, u) ELSE queue
                \/ /\ pending'.kind = "in_done"
                   /\ pending'.user = u
                   /\ pending'.prev = queue
                   /\ queue' = IF Occurs(u, queue)
                                THEN RemoveAt(queue, Position(queue, u))
                                ELSE queue]_vars

C25_Witness ==
    /\ InDone
    /\ pending.r.idx = 0
    /\ pending.prev = <<"A", "B">>
    /\ queue = <<"B">>
    /\ can_add(queue, "A")

\* C26: two UserIDs are equal if and only if their ID tokens are equal,
\* whatever their positions in line are.
C26_EqualByToken ==
    last.op = "eq" =>
        ((last.result = "equal") <=> (pending.self.uid = pending.other.uid))

C26_Witness ==
    /\ last.op = "eq"
    /\ last.result = "equal"
    /\ pending.self.uid = pending.other.uid
    /\ pending.self.position # pending.other.position

\* C27: remove_first on an empty queue returns no user, leaves the queue
\* empty and the backup file as it was; on a queue with entries it takes
\* out the head entry, and only it, and returns it.
C27_RemoveFirst ==
    [][last'.op = "remove_first" =>
          IF queue = <<>>
          THEN /\ last'.user = "none"
               /\ queue' = <<>>
               /\ file' = file
          ELSE /\ last'.user = queue[1]
               /\ queue' = Tail(queue)]_vars

C27_Witness ==
    /\ last.op = "remove_first"
    /\ last.prev = <<>>
    /\ last.user = "none"
    /\ queue = <<>>

\* the places in f where a line of one blank starts
BlankLineStarts(f) ==
    {i \in 1..(Len(f) - 1) :
        /\ f[i] = " "
        /\ f[i + 1] = "\n"
        /\ (i = 1 \/ f[i - 1] = "\n")}

\* f with the two bytes at i and i + 1 taken out
CutLine(f, i) == SubSeq(f, 1, i - 1) \o SubSeq(f, i + 2, Len(f))

\* C28: a load that succeeds orders the entries by their position value,
\* not by the order of the lines: the entry of a line stands at the place
\* its position has among the positions of the file; and a blank line does
\* not count: the file without it loads to the same result.
C28_LoadByPosition ==
    Loaded =>
        /\ status = "running" =>
               LET cl == ContentLines(file)
               IN  /\ Len(queue) = Len(cl)
                   /\ \A i \in 1..Len(cl) : queue[Rank(cl, i)] = UserOf(cl[i])
        /\ \A i \in BlankLineStarts(file) :
               from_file(CutLine(file, i)) = [ok |-> status = "running", queue |-> queue]

C28_Witness ==
    /\ Loaded
    /\ status = "running"
    /\ BlankLineStarts(file) # {}
    /\ LET cl == ContentLines(file)
       IN  /\ Len(cl) = 2
           /\ PositionOf(cl[1]) > PositionOf(cl[2])
           /\ UserOf(cl[1]) # UserOf(cl[2])
           /\ queue = <<UserOf(cl[2]), UserOf(cl[1])>>

\* C29: loading performs no write: the backup file holds after the load
\* what it held before, whether the load yields a queue or fails; and the
\* file changes only in an add that was admitted or a done that found its
\* user, the operations that call write_state.
C29_LoadWritesNothing ==
    [][/\ last'.op = "load" => file' = file
       /\ file' # file => (last'.op \in {"add", "done"} /\ last'.wrote)]_vars

C29_Witness ==
    /\ Loaded
    /\ status = "running"
    /\ queue # <<>>
    /\ file # Serialize(queue)

\* C30: a user whose add was rejected is unblocked by the add of someone
\* else: when add(u) is rejected, a different user v is then added and
\* saved, and add(u) is the next command, that add is admitted.
C30_UnblockedByOther ==
    (last.op = "add" /\ last.retry) => Admitted(last)

\* between the rejected add of A and the admitted one, B was added
C30_Witness ==
    /\ last.op = "add"
    /\ last.retry
    /\ Admitted(last)
    /\ last.sender = "A"
    /\ last.prev = <<"B", "A", "A", "B">>
    /\ queue = <<"B", "A", "A", "B", "A">>

\* every byte of f is whitespace (an empty file too)
AllBlank(f) == \A i \in 1..Len(f) : f[i] \in Whitespace

\* the queue has just been created: by Queue::new, or by from_file on a file
\* that is missing, empty or all blank
FreshlyCreated == last.op = "start" \/ (Loaded /\ AllBlank(file))

\* C31: a freshly created queue is empty: the process runs, the queue has
\* no entry and peek_first_user_in_line returns nothing; a done handled on
\* the empty queue answers NonExistentUser for any user, and an add handled
\* on it is admitted for any user.
C31_FreshQueueEmpty ==
    /\ FreshlyCreated =>
           (/\ status = "running"
            /\ queue = <<>>
            /\ peek_first_user_in_line(queue) = "none")
    /\ (last.op = "done" /\ last.prev = <<>>) => last.result = "NonExistentUser"
    /\ (last.op = "add" /\ last.prev = <<>>) => Admitted(last)

C31_Witness ==
    /\ Loaded
    /\ file # <<>>
    /\ AllBlank(file)
    /\ status = "running"
    /\ queue = <<>>

\* C32: show and help never change the queue and never write to the backup
\* file: once a message that asks for one of them is handled, the queue is
\* the one the handler started from and the file is the snapshot it was.
C32_ShowHelpChangeNothing ==
    (Handled /\ last.op \in {"show", "help"}) =>
        (/\ queue = last.prev
         /\ file = Serialize(last.prev))

C32_Witness ==
    /\ Handled
    /\ last.op = "show"
    /\ reply.kind = "show"
    /\ Len(reply.lines) = 2
    /\ queue = <<"A", "A">>
    /\ file = Serialize(queue)

IsCommand(l) == l.op \in {"add", "done", "show", "help", "unrecognized"}

\* the entries of q that are not v's, in their order
EntriesOfOthers(q, v) == SelectSeq(q, LAMBDA x : x # v)

\* C33: a command of user v never changes the entries of another user:
\* after every add, done, show, help or unrecognized command the entries that
\* are not the sender's are the same, in number and in order, as before it.
C33_OthersUntouched ==
    IsCommand(last) =>
        EntriesOfOthers(queue, last.sender) = EntriesOfOthers(last.prev, last.sender)

C33_Witness ==
    /\ last.op = "done"
    /\ last.sender = "B"
    /\ last.prev = <<"A", "B", "A", "B">>
    /\ queue = <<"A", "A", "B">>

\* C34: the head entry stays at the head until the head user sends done:
\* after an add, and after a done of a user who is not at the head, the
\* queue is not empty and its head is the head it had before.
C34_HeadStays ==
    (/\ last.prev # <<>>
     /\ \/ last.op = "add"
        \/ last.op = "done" /\ last.sender # last.prev[1])
        => (queue # <<>> /\ queue[1] = last.prev[1])

C34_Witness ==
    /\ last.op = "done"
    /\ last.sender = "B"
    /\ last.result = "UserSuccessfullyRemoved"
    /\ last.prev = <<"A", "B", "A">>
    /\ queue = <<"A", "A">>

\* q is p with the entry at place i taken out: the entries ahead of i keep
\* their index, those behind it have it lowered by one
TakenOut(p, q, i) ==
    /\ Len(q) = Len(p) - 1
    /\ \A k \in 1..Len(q) : q[k] = IF k < i THEN p[k] ELSE p[k + 1]

\* C35: the index of an entry never increases and no two entries change
\* their order: an add leaves every entry where it was (the new one comes
\* behind them), and a done leaves the queue as it was or takes one entry
\* out, the entries behind it moving up by exactly one.
C35_IndexNeverIncreases ==
    /\ last.op = "add" =>
           (queue = last.prev \/ queue = last.prev \o <<last.sender>>)
    /\ last.op = "done" =>
           (queue = last.prev \/ \E i \in 1..Len(last.prev) : TakenOut(last.prev, queue, i))
    /\ last.op \in {"show", "help", "unrecognized"} => queue = last.prev

C35_Witness ==
    /\ last.op = "done"
    /\ last.prev = <<"A", "B", "B", "A">>
    /\ queue = <<"A", "B", "A">>

\* C36: in a history of adds without removals two neighbours with the same
\* user stand among the first three entries only: from the fourth entry
\* (index 3) on every entry differs from the one in front of it.
C36_RepeatsOnlyInFront ==
    \A i \in 4..Len(queue) : queue[i] # queue[i - 1]

C36_Witness ==
    /\ last.op = "add"
    /\ queue = <<"A", "A", "A", "B", "A">>

\* C37: a queue built by adds alone loads back: whenever an add has been
\* saved, from_file on the backup file rejects no entry and yields the
\* queue, entry by entry.
C37_AddsOnlyLoadBack ==
    (last.op = "add" /\ last.result = "UserSuccessfullyAdded") =>
        from_file(file) = [ok |-> TRUE, queue |-> queue]

C37_Witness ==
    /\ last.op = "add"
    /\ last.result = "UserSuccessfullyAdded"
    /\ failures > 0
    /\ queue = <<"B", "B", "B", "A", "B">>
    /\ from_file(file).queue = queue

\* C38: a stale snapshot heals on the next successful save: once a save has
\* failed, every later add or done whose save succeeds leaves a file whose
\* entries are the whole queue in memory, the entries whose saves had failed
\* among them.
C38_StaleSnapshotHeals ==
    (Saved(last) /\ failures > 0) =>
        LET cl == ContentLines(file)
        IN  /\ [i \in 1..Len(cl) |-> UserOf(cl[i])] = queue
            /\ \A i \in 1..Len(cl) : PositionOf(cl[i]) = i - 1

C38_Witness ==
    /\ Saved(last)
    /\ last.op = "add"
    /\ failures > 0
    /\ Len(queue) >= 2
    /\ Len(ContentLines(file)) = Len(queue)

\* the statements of write_state end where write_state as a whole ends
SaveAgreesWithWriteState ==
    (pending.pc = "done") =>
        \E io \in {<<"ok", 0>>} \cup IoFailures(queue) :
            /\ io[1] = pending.result
            /\ write_state(queue, pending.before, io) = [ok |-> io[1] = "ok", file |-> file]

\* the users of the BTreeMap `people`, in key order
InKeyOrder(people) ==
    [i \in 1..Cardinality(DOMAIN people) |->
        people[CHOOSE k \in DOMAIN people :
                   Cardinality({j \in DOMAIN people : j < k}) = i - 1]]

\* what the parsing loop of from_file reads in f
Parsed(f) ==
    LET p == ParsePeople(Lines(f), 1, EmptyPeople)
    IN  IF p.ok THEN [ok |-> TRUE, queue |-> InKeyOrder(p.people)]
        ELSE [ok |-> FALSE, queue |-> <<>>]

ParsesToOldEmptyOrNew ==
    /\ Parsed(file).ok
    /\ Parsed(file).queue \in {pending.old, <<>>, queue}

C40_LengthNeverDecreases ==
    /\ Len(file) >= Len(pending.before)
    /\ (pending.result = "ok" /\ Len(Serialize(queue)) < Len(pending.before)) =>
           (/\ Len(file) = Len(pending.before)
            /\ SubSeq(file, 1, Len(Serialize(queue))) = Serialize(queue)
            /\ \A i \in (Len(Serialize(queue)) + 1)..Len(file) : file[i] = " ")

C40_Witness ==
    /\ pending.result = "ok"
    /\ pending.old = <<"A", "B", "A">>
    /\ queue = <<"A", "A">>
    /\ Len(pending.before) = Len(Serialize(pending.old))
    /\ Len(file) = Len(Serialize(queue)) + Len(Serialize(<<"A">>))

====
